---- MODULE Spec2Model ----
(***************************************************************************)
(* Meeting transcription pipeline: the API step (Ingress), the             *)
(* MeetingTranscriptionProcessor event step (Transcription Stage) and the  *)
(* MeetingSummarizer event step (Analysis Stage), running concurrently     *)
(* over the meetingTranscription stream (State Store) and the event bus.   *)
(* Every await of a handler is one step of the model, so handlers of       *)
(* different requests, and a handler and the stage its event started,      *)
(* interleave at their await points.                                       *)
(*                                                                         *)
(* The timestamp fields of the written objects are not part of the         *)
(* modelled records, nor is the summarizer's processingTime, which is      *)
(* computed from a timestamp; the transcription-completed event carries a  *)
(* timestamp text that names no particular instant.  The clock is read for *)
(* the id only.  Texts are strings, read character by character.  The API  *)
(* handler is given the request body as sent: fields that are present have *)
(* the types of bodySchema, and no default has been filled in.             *)
(***************************************************************************)
EXTENDS Integers, Sequences, FiniteSets, TLC

\* Bounds of the model.
MaxRequests == 2      \* HTTP requests submitted
MaxClock == 1         \* largest value of Date.now()
MaxFaults == 2        \* store / bus calls that reject

\* Program constants.
SuffixLen == 9        \* substr(2, 9)
MinDuration == 300    \* Math.floor(Math.random() * 3600) + 300
DurationSpan == 3600
StepDelay == 1000     \* setTimeout(resolve, 1000)
MinActionLineLength == 30   \* line.length > 30
MaxActionItems == 5         \* actionItems.slice(0, 5)
DefaultSpeakingRate == 150        \* duration ? ... : 150
DefaultParticipationScore == 8    \* participants ? ... : 8
MaxParticipationScore == 10       \* Math.min(10, participants.length * 2)
DefaultParticipantCount == 2      \* participants?.length || 2
HighSpeakingRate == 160           \* speakingRate > 160
MediumSpeakingRate == 120         \* speakingRate > 120
MinKeywordMatches == 2            \* matches.length >= 2
MinSummaryLineLength == 50        \* line.length > 50
MaxSummarySentences == 3          \* .slice(0, 3)
WordsPerMinute == 150             \* Math.ceil(wordCount / 150)
MinDecisionLineLength == 40       \* line.length > 40
MaxDecisions == 3                 \* decisions.slice(0, 3)
BaseConfidence == 60              \* 0.6, in hundredths
ConfidenceStep == 10              \* 0.1, in hundredths
MaxConfidence == 95               \* 0.95, in hundredths

NoValue == "undefined"
NoResponse == [status |-> 0]
EmptyObject == << >>

Requests == 1..MaxRequests

\* Each request is handled under the trace id the framework passes in.
\* Faulty variant: every request is handled under one and the same group id.
TraceIdOf_Shared(r) == 0
TraceIdOf(r) == r

\* Request bodies offered to POST /transcribe-meeting.
Bodies ==
  { [filename |-> "standup.wav", language |-> NoValue, model |-> NoValue,
     localWhisperPath |-> NoValue],
    [filename |-> "meeting.wav", language |-> "fr", model |-> "whisper-1",
     localWhisperPath |-> NoValue],
    [filename |-> "", language |-> "en", model |-> "whisper-1",
     localWhisperPath |-> NoValue],
    [filename |-> NoValue, language |-> NoValue, model |-> NoValue,
     localWhisperPath |-> NoValue] }

\* Math.random().toString(36) after the leading "0.": base-36 digits.
\* Two of the draws differ in the tenth digit only, one is short.
SharedPrefixDraws ==
  { <<"k", "3", "x", "9", "q", "0", "a", "7", "z", "1">>,
    <<"k", "3", "x", "9", "q", "0", "a", "7", "z", "2">> }

RandomDraws == SharedPrefixDraws \cup { <<"i">> }

\* Values of mockDuration used by the model (least and greatest).
Durations == { MinDuration, MinDuration + DurationSpan - 1 }

\* transcription-completed events offered to the summarizer on its own: the
\* transcripts, participant lists and durations its input schema admits.
ScenarioTranscript == "We decided to ship Friday. John will follow up with QA."

\* 151 words on one line.
LongTranscript ==
  "go go go go go go go go go go go go go go go go go go go go go go go go go go go go go go go go go go go go go go go go go go go go go go go go go go go go go go go go go go go go go go go go go go go go go go go go go go go go go go go go go go go go go go go go go go go go go go go go go go go go go go go go go go go go go go go go go go go go go go go go go go go go go go go go go go go go go go go go go go go go go go go go go go go go go go go"

SampleTranscripts ==
  { ScenarioTranscript,
    "JOHN WILL send the quarterly report to the client.\nJane should review the budget before Friday.",
    "John and Jane will present the roadmap on Monday morning.",
    "   Bob must deliver the platform update by Monday.   ",
    "Nothing to report for this week, everyone is on track.",
    "short will",
    "",
    "Item one: we will draft the release notes.\nItem two: we will update the changelog.\n"
      \o "Item three: we will tag the release branch.\nItem four: we will notify the customers.\n"
      \o "Item five: we will archive the old builds.\nItem six: we will close the milestone.",
    "The PROJECT Timeline slipped and the budget cost estimate is a Problem, but the team is excited.",
    "Great, excellent, good progress: a success we all agree on. Yes!",
    "We DECIDED to move the launch to the second quarter.\nok agreed\n"
      \o "The board approved the new budget today.\n"
      \o "  The board approved the revised budget for the next year. \n"
      \o "It was concluded that the vendor contract will end in May.\n"
      \o "The team resolved to hire two more engineers very soon.",
    "We decided to keep the current release plan as is.",
    "Good work: good progress and a good result.",
    LongTranscript }

SampleParticipants ==
  { [present |-> FALSE],
    [present |-> TRUE, value |-> << >>],
    [present |-> TRUE, value |-> << "John Doe", "Jane Smith", "Bob Johnson" >>],
    [present |-> TRUE, value |-> << "Jane Smith", "John Doe" >>],
    [present |-> TRUE, value |-> << "", "John Doe" >>] }

SampleDurations ==
  { [present |-> FALSE],
    [present |-> TRUE, value |-> 0],
    [present |-> TRUE, value |-> 3],
    [present |-> TRUE, value |-> 4],
    [present |-> TRUE, value |-> 8],
    [present |-> TRUE, value |-> MinDuration],
    [present |-> TRUE, value |-> MinDuration + DurationSpan - 1] }

StoreFaultMessage == "store unavailable"
BusFaultMessage == "bus unavailable"

----------------------------------------------------------------------------
\* JavaScript helpers.

Min(a, b) == IF a < b THEN a ELSE b

\* !v for a string-or-undefined value.
IsFalsy(v) == v \in {NoValue, ""}

\* v || d
OrElse(v, d) == IF IsFalsy(v) THEN d ELSE v

\* A property whose value is undefined is not stored.
OptField(f, v) == IF v = NoValue THEN EmptyObject ELSE (f :> v)

\* { f: obj.f }, where an undefined obj.f is not stored.
CopyField(obj, f) == IF f \in DOMAIN obj THEN (f :> obj[f]) ELSE EmptyObject

\* { ...old, ...new }
Merge(old, new) == new @@ old

\* An optional argument or property: undefined, or a value.
Absent == [present |-> FALSE]
Some(v) == [present |-> TRUE, value |-> v]

\* obj.f for a property the object may lack.
Optional(obj, f) == IF f \in DOMAIN obj THEN Some(obj[f]) ELSE Absent

UpperCaseLetters == "ABCDEFGHIJKLMNOPQRSTUVWXYZ"
LowerCaseLetters == "abcdefghijklmnopqrstuvwxyz"

CharAt(s, i) == SubSeq(s, i, i)

LowerChar(c) ==
  IF \E i \in 1..Len(UpperCaseLetters) : CharAt(UpperCaseLetters, i) = c
    THEN CharAt(LowerCaseLetters,
                CHOOSE i \in 1..Len(UpperCaseLetters) : CharAt(UpperCaseLetters, i) = c)
    ELSE c

\* String.prototype.toLowerCase, computed on the two halves of the string.
RECURSIVE ToLowerCase(_)
ToLowerCase(s) ==
  IF s = "" THEN ""
  ELSE IF Len(s) = 1 THEN LowerChar(s)
  ELSE ToLowerCase(SubSeq(s, 1, Len(s) \div 2))
         \o ToLowerCase(SubSeq(s, Len(s) \div 2 + 1, Len(s)))

\* String.prototype.includes
Includes(s, w) ==
  \E i \in 1..(Len(s) - Len(w) + 1) : SubSeq(s, i, i + Len(w) - 1) = w

\* String.prototype.split with a one-character separator: the pieces between
\* consecutive separators, the two ends of the string counting as separators.
Split(s, sep) ==
  LET at == { i \in 1..Len(s) : CharAt(s, i) = sep } \cup {0, Len(s) + 1}
      Nth(n) == CHOOSE i \in at : Cardinality({ j \in at : j < i }) = n
  IN [n \in 1..(Cardinality(at) - 1) |-> SubSeq(s, Nth(n - 1) + 1, Nth(n) - 1)]

IsWhiteSpace(c) == c \in {" ", "\n", "\t", "\r"}

\* String.prototype.trim
Trim(s) ==
  LET inked == { i \in 1..Len(s) : ~IsWhiteSpace(CharAt(s, i)) }
  IN IF inked = {} THEN ""
     ELSE SubSeq(s, CHOOSE i \in inked : \A j \in inked : i <= j,
                    CHOOSE i \in inked : \A j \in inked : i >= j)

\* Array.prototype.slice(0, n)
Slice(seq, n) == SubSeq(seq, 1, Min(Len(seq), n))

\* String.prototype.substr(2, 9) on "0.<digits>".
Suffix(draw) == SubSeq(draw, 1, Min(Len(draw), SuffixLen))

\* `trans_${Date.now()}_${Math.random().toString(36).substr(2, 9)}`
\* Faulty variant: the clock value is left out of the id.
TranscriptionId_NoClock(t, draw) == <<"trans", 0, Suffix(draw)>>
TranscriptionId(t, draw) == <<"trans", t, Suffix(draw)>>

----------------------------------------------------------------------------
\* State Store (stream meetingTranscription).

\* set(groupId, id, data): merge into the record of (groupId, id), creating
\* it if absent; the result is the full record.
Put(st, key, data) ==
  [k \in DOMAIN st \cup {key} |->
     IF k = key
       THEN (IF key \in DOMAIN st THEN Merge(st[key], data) ELSE data)
       ELSE st[k]]

\* add(data): append an item to the stream; the caller names no key.
Add(items, data) ==
  [d \in DOMAIN items \cup {data} |->
     IF d = data
       THEN (IF data \in DOMAIN items THEN items[data] + 1 ELSE 1)
       ELSE items[d]]

----------------------------------------------------------------------------
\* Event bus.

\* Faulty variant: the processor listens on a topic nobody publishes.
ProcessorSubscribes_Wrong == {"transcription-requested"}
ProcessorSubscribes == {"meeting-transcription"}

\* Faulty variant: the summarizer also listens to an event it publishes.
SummarizerSubscribes_OwnTopic == {"transcription-completed", "summary-completed"}
\* Faulty variant: the summarizer also listens to transcription-failed.
SummarizerSubscribes_Both == {"transcription-completed", "transcription-failed"}
SummarizerSubscribes == {"transcription-completed"}

Subscribers(topic) ==
  (IF topic \in ProcessorSubscribes THEN {"processor"} ELSE {}) \cup
  (IF topic \in SummarizerSubscribes THEN {"summarizer"} ELSE {})

Deliveries(r, topic, data) ==
  { [stage |-> s, trace |-> TraceIdOf(r), data |-> data] : s \in Subscribers(topic) }

----------------------------------------------------------------------------
\* Objects written and published by the API step.

\* Faulty variant: only an absent filename is refused, an empty one passes.
FilenameMissing_OnlyUndefined(body) == body.filename = NoValue
FilenameMissing(body) == IsFalsy(body.filename)

LocalWhisperPath(body) == OrElse(body.localWhisperPath, "./scripts/transcribe_whisper.py")

\* Faulty variant: the initial record is written as already transcribing.
UploadingRecord_Started(body) ==
  [status |-> "transcribing", progress |-> 10, filename |-> body.filename,
   localWhisperStatus |-> "pending"] @@ OptField("whisperModel", body.model)
UploadingRecord(body) ==
  [status |-> "uploading", progress |-> 0, filename |-> body.filename,
   localWhisperStatus |-> "pending"] @@ OptField("whisperModel", body.model)

\* Faulty variant: the event carries an id other than the one of the record.
IngressEvent_FreshId(body, id) ==
  [filename |-> body.filename,
   language |-> OrElse(body.language, "en"),
   model |-> OrElse(body.model, "whisper-large-v3"),
   transcriptionId |-> <<"trans", id[2] + 1, id[3]>>,
   apiRequest |-> TRUE,
   localWhisperPath |-> LocalWhisperPath(body)]
\* Faulty variant: the language is passed on as sent, without the default.
IngressEvent_RawLanguage(body, id) ==
  [filename |-> body.filename,
   language |-> body.language,
   model |-> OrElse(body.model, "whisper-large-v3"),
   transcriptionId |-> id,
   apiRequest |-> TRUE,
   localWhisperPath |-> LocalWhisperPath(body)]
IngressEvent(body, id) ==
  [filename |-> body.filename,
   language |-> OrElse(body.language, "en"),
   model |-> OrElse(body.model, "whisper-large-v3"),
   transcriptionId |-> id,
   apiRequest |-> TRUE,
   localWhisperPath |-> LocalWhisperPath(body)]

MissingFilenameResponse ==
  [status |-> 400,
   body |-> [error |-> "Missing required field: filename",
             details |-> "The filename field is required for transcription"]]

FailedRequestResponse(message) ==
  [status |-> 400,
   body |-> [error |-> "Failed to process transcription request",
             details |-> message]]

AcceptedResponse(r, body, id, streamResult) ==
  [status |-> 200,
   body |-> Merge([message |-> "Meeting transcription request submitted successfully",
                   traceId |-> TraceIdOf(r),
                   transcriptionId |-> id,
                   streamId |-> id,
                   localWhisperPath |-> LocalWhisperPath(body)],
                  streamResult)]

----------------------------------------------------------------------------
\* Objects written and published by the MeetingTranscriptionProcessor step.

\* Faulty variant: the first two checkpoints are swapped.
TranscriptionSteps_Unordered ==
  << [progress |-> 40, whisperStatus |-> "processing_audio"],
     [progress |-> 20, whisperStatus |-> "loading_model"],
     [progress |-> 60, whisperStatus |-> "generating_transcript"],
     [progress |-> 80, whisperStatus |-> "post_processing"],
     [progress |-> 90, whisperStatus |-> "finalizing"] >>
\* Faulty variant: the last checkpoint repeats the progress of the one before.
TranscriptionSteps_Repeated ==
  << [progress |-> 20, whisperStatus |-> "loading_model"],
     [progress |-> 40, whisperStatus |-> "processing_audio"],
     [progress |-> 60, whisperStatus |-> "generating_transcript"],
     [progress |-> 80, whisperStatus |-> "post_processing"],
     [progress |-> 80, whisperStatus |-> "finalizing"] >>
TranscriptionSteps ==
  << [progress |-> 20, whisperStatus |-> "loading_model"],
     [progress |-> 40, whisperStatus |-> "processing_audio"],
     [progress |-> 60, whisperStatus |-> "generating_transcript"],
     [progress |-> 80, whisperStatus |-> "post_processing"],
     [progress |-> 90, whisperStatus |-> "finalizing"] >>

\* Faulty variant: the progress is written under the status uploading.
TranscribingRecord_Uploading(input, progress, whisperStatus) ==
  [status |-> "uploading", progress |-> progress, filename |-> input.filename,
   localWhisperStatus |-> whisperStatus, whisperModel |-> input.model]
TranscribingRecord(input, progress, whisperStatus) ==
  [status |-> "transcribing", progress |-> progress, filename |-> input.filename,
   localWhisperStatus |-> whisperStatus, whisperModel |-> input.model]

\* mockTranscript, a template literal of three lines.
MockTranscript(filename) ==
  "This is a simulated transcript for " \o filename \o ". \n"
  \o "    In a real implementation, this would be the actual transcription from the Whisper API.\n"
  \o "    The transcript would include all spoken content with proper punctuation and formatting."

MockParticipants == << "John Doe", "Jane Smith", "Bob Johnson" >>

MockActionItems ==
  << "Schedule follow-up meeting", "Review project timeline", "Update documentation" >>

\* new Date().toISOString(): a text of 24 characters; which instant it names
\* is not modelled.
ISOString == "1970-01-01T00:00:00.000Z"

\* processingTime = Date.now() - startTime: the time the loop takes, which is
\* counted as its five delays.
ProcessingTime == Len(TranscriptionSteps) * StepDelay

\* Faulty variant: the completed record is written with an empty transcript.
CompletedRecord_NoTranscript(input, duration) ==
  [status |-> "completed", progress |-> 100, filename |-> input.filename,
   duration |-> duration, transcript |-> "",
   participants |-> MockParticipants, actionItems |-> MockActionItems,
   localWhisperStatus |-> "completed", whisperModel |-> input.model,
   processingTime |-> ProcessingTime]
CompletedRecord(input, duration) ==
  [status |-> "completed", progress |-> 100, filename |-> input.filename,
   duration |-> duration, transcript |-> MockTranscript(input.filename),
   participants |-> MockParticipants, actionItems |-> MockActionItems,
   localWhisperStatus |-> "completed", whisperModel |-> input.model,
   processingTime |-> ProcessingTime]

\* Faulty variant: the event carries the least duration, whatever was drawn.
CompletedEvent_FixedDuration(input, duration) ==
  [filename |-> input.filename, transcriptionId |-> input.transcriptionId,
   duration |-> MinDuration, transcript |-> MockTranscript(input.filename),
   participants |-> MockParticipants, actionItems |-> MockActionItems,
   processingTime |-> ProcessingTime, whisperModel |-> input.model,
   timestamp |-> ISOString]
CompletedEvent(input, duration) ==
  [filename |-> input.filename, transcriptionId |-> input.transcriptionId,
   duration |-> duration, transcript |-> MockTranscript(input.filename),
   participants |-> MockParticipants, actionItems |-> MockActionItems,
   processingTime |-> ProcessingTime, whisperModel |-> input.model,
   timestamp |-> ISOString]

\* Faulty variant: the failed record carries no error.
FailedRecord_NoError(input, message) ==
  [status |-> "failed", progress |-> 0, filename |-> input.filename,
   localWhisperStatus |-> "failed", whisperModel |-> input.model]
FailedRecord(input, message) ==
  [status |-> "failed", progress |-> 0, filename |-> input.filename,
   error |-> message, localWhisperStatus |-> "failed", whisperModel |-> input.model]

FailedEvent(input, message) ==
  [filename |-> input.filename, transcriptionId |-> input.transcriptionId,
   error |-> message, whisperModel |-> input.model]

----------------------------------------------------------------------------
\* Analysis functions of the MeetingSummarizer step.

actionWords ==
  << "will", "should", "need to", "must", "action", "todo", "follow up",
     "complete", "deliver" >>

\* actionWords.some(word => line.includes(word)) && line.length > 30
IsActionLine(line) ==
  /\ \E i \in DOMAIN actionWords : Includes(line, actionWords[i])
  /\ Len(line) > MinActionLineLength

\* p.toLowerCase().split(' ')[0]
FirstNameToken(p) == Split(ToLowerCase(p), " ")[1]

\* participants?.find(p => line.includes(...)): the first match or undefined.
FindParticipant(line, participants) ==
  IF participants.present
    THEN LET ps == participants.value
             matching == { i \in DOMAIN ps : Includes(line, FirstNameToken(ps[i])) }
         IN IF matching = {} THEN NoValue
            ELSE ps[CHOOSE i \in matching : \A j \in matching : i <= j]
    ELSE NoValue

\* Faulty variant: the last matching participant is taken, not the first.
Assignee_LastMatch(line, participants) ==
  IF participants.present
    THEN LET ps == participants.value
             matching == { i \in DOMAIN ps : Includes(line, FirstNameToken(ps[i])) }
         IN IF matching = {} THEN "Team member"
            ELSE OrElse(ps[CHOOSE i \in matching : \A j \in matching : i >= j],
                        "Team member")
    ELSE "Team member"
Assignee(line, participants) ==
  OrElse(FindParticipant(line, participants), "Team member")

DefaultActionItems ==
  << "Team: Follow up on discussed topics from this meeting",
     "Organizer: Schedule next meeting to review progress",
     "Participants: Review meeting notes and prepare for next session" >>

\* Faulty variant: the result is not cut to five items.
extractActionItems_Uncapped(transcript, participants) ==
  LET lines == Split(ToLowerCase(transcript), "\n")
      kept == SelectSeq(lines, IsActionLine)
      found == [i \in DOMAIN kept |->
                  Assignee(kept[i], participants) \o ": " \o Trim(kept[i])]
  IN IF found = << >> THEN DefaultActionItems ELSE found
extractActionItems(transcript, participants) ==
  LET lines == Split(ToLowerCase(transcript), "\n")
      kept == SelectSeq(lines, IsActionLine)
      found == [i \in DOMAIN kept |->
                  Assignee(kept[i], participants) \o ": " \o Trim(kept[i])]
      actionItems == IF found = << >> THEN DefaultActionItems ELSE found
  IN Slice(actionItems, MaxActionItems)

topicKeywords ==
  << [topic |-> "Project Management",
      keywords |-> << "project", "timeline", "deadline", "milestone", "deliverable" >>],
     [topic |-> "Budget & Finance",
      keywords |-> << "budget", "cost", "expense", "financial", "revenue", "profit" >>],
     [topic |-> "Team & Personnel",
      keywords |-> << "team", "staff", "hire", "employee", "resource", "people" >>],
     [topic |-> "Strategy & Planning",
      keywords |-> << "strategy", "plan", "goal", "objective", "vision", "future" >>],
     [topic |-> "Technology",
      keywords |-> << "system", "software", "platform", "api", "technical", "development" >>],
     [topic |-> "Sales & Marketing",
      keywords |-> << "sales", "marketing", "customer", "client", "campaign", "revenue" >>],
     [topic |-> "Operations",
      keywords |-> << "process", "workflow", "operation", "efficiency", "procedure" >>],
     [topic |-> "Quality & Performance",
      keywords |-> << "quality", "performance", "metrics", "improvement", "optimization" >>] >>

\* words.filter(word => text.includes(word)).length
CountIncluded(text, words) ==
  Cardinality({ i \in DOMAIN words : Includes(text, words[i]) })

DefaultTopics == << "General Discussion", "Team Coordination" >>

\* Faulty variant: one keyword is enough for a topic.
extractKeyTopics_OneKeyword(transcript) ==
  LET text == ToLowerCase(transcript)
      identified == SelectSeq(topicKeywords,
                              LAMBDA e : CountIncluded(text, e.keywords) >= 1)
      identifiedTopics == [i \in DOMAIN identified |-> identified[i].topic]
  IN IF Len(identifiedTopics) > 0 THEN identifiedTopics ELSE DefaultTopics
extractKeyTopics(transcript) ==
  LET text == ToLowerCase(transcript)
      identified == SelectSeq(topicKeywords,
                              LAMBDA e : CountIncluded(text, e.keywords) >= MinKeywordMatches)
      identifiedTopics == [i \in DOMAIN identified |-> identified[i].topic]
  IN IF Len(identifiedTopics) > 0 THEN identifiedTopics ELSE DefaultTopics

positiveWords ==
  << "great", "excellent", "good", "success", "achieve", "progress", "positive",
     "agree", "yes" >>

negativeWords ==
  << "problem", "issue", "concern", "difficult", "challenge", "delay", "failed",
     "no", "disagree" >>

Abs(n) == IF n < 0 THEN -n ELSE n

\* Faulty variant: the confidence is not capped.
Confidence_Uncapped(positiveCount, negativeCount) ==
  BaseConfidence + Abs(positiveCount - negativeCount) * ConfidenceStep
\* Math.min(0.95, 0.6 + Math.abs(positiveCount - negativeCount) * 0.1), in
\* hundredths.
Confidence(positiveCount, negativeCount) ==
  Min(MaxConfidence, BaseConfidence + Abs(positiveCount - negativeCount) * ConfidenceStep)

analyzeSentiment(transcript) ==
  LET text == ToLowerCase(transcript)
      positiveCount == CountIncluded(text, positiveWords)
      negativeCount == CountIncluded(text, negativeWords)
  IN [overall |-> IF positiveCount > negativeCount THEN "positive"
                  ELSE IF negativeCount > positiveCount THEN "negative"
                  ELSE "neutral",
      confidence |-> Confidence(positiveCount, negativeCount),
      positiveIndicators |-> positiveCount,
      negativeIndicators |-> negativeCount,
      energyLevel |-> IF Includes(text, "excited") \/ Includes(text, "enthusiastic")
                        THEN "high" ELSE "medium"]

decisionWords ==
  << "decided", "agreed", "approved", "concluded", "determined", "resolved" >>

\* decisionWords.some(word => line.toLowerCase().includes(word))
\*   && line.length > 40
IsDecisionLine(line) ==
  /\ \E i \in DOMAIN decisionWords : Includes(ToLowerCase(line), decisionWords[i])
  /\ Len(line) > MinDecisionLineLength

\* Faulty variant: the words are looked up in the line as written.
extractDecisions_CaseSensitive(transcript) ==
  LET lines == Split(transcript, "\n")
      kept == SelectSeq(lines, LAMBDA line :
                 /\ \E i \in DOMAIN decisionWords : Includes(line, decisionWords[i])
                 /\ Len(line) > MinDecisionLineLength)
      decisions == [i \in DOMAIN kept |-> Trim(kept[i])]
  IN Slice(decisions, MaxDecisions)
extractDecisions(transcript) ==
  LET lines == Split(transcript, "\n")
      kept == SelectSeq(lines, IsDecisionLine)
      decisions == [i \in DOMAIN kept |-> Trim(kept[i])]
  IN Slice(decisions, MaxDecisions)

\* transcript.split(' ').length: one piece more than there are separators.
WordCount(transcript) ==
  Cardinality({ i \in 1..Len(transcript) : CharAt(transcript, i) = " " }) + 1

\* Array.prototype.join
RECURSIVE Join(_, _)
Join(seq, sep) ==
  IF seq = << >> THEN ""
  ELSE IF Len(seq) = 1 THEN seq[1]
  ELSE seq[1] \o sep \o Join(Tail(seq), sep)

\* Faulty variant: the minutes are rounded downwards.
Minutes_Floor(wordCount) == wordCount \div WordsPerMinute
\* Math.ceil(wordCount / 150)
Minutes(wordCount) == (wordCount + WordsPerMinute - 1) \div WordsPerMinute

\* The three pictographs and the bullet of the template are written as ASCII
\* stand-ins.
ClipboardSign == "[clipboard]"
TargetSign == "[target]"
BulbSign == "[bulb]"
BulletSign == "*"

\* lines.filter(line => line.length > 50).slice(0, 3).map(line => line.trim())
ImportantSentences(transcript) ==
  LET lines == SelectSeq(Split(transcript, "\n"), LAMBDA line : Trim(line) # "")
      long == Slice(SelectSeq(lines, LAMBDA line : Len(line) > MinSummaryLineLength),
                    MaxSummarySentences)
  IN [i \in DOMAIN long |-> Trim(long[i])]

generateMeetingSummary(transcript) ==
  Trim("\n"
       \o ClipboardSign \o " Meeting Summary:\n"
       \o "This " \o ToString(Minutes(WordCount(transcript)))
       \o "-minute meeting covered several key areas. "
       \o Join(ImportantSentences(transcript), " ") \o "\n"
       \o "\n"
       \o TargetSign \o " Key Outcomes:\n"
       \o BulletSign \o " Main discussion topics were identified and addressed\n"
       \o BulletSign \o " Team collaboration and coordination points were established\n"
       \o BulletSign \o " Forward-looking action items were assigned to participants\n"
       \o "\n"
       \o BulbSign \o " Overall Assessment:\n"
       \o "The meeting was productive with clear outcomes and next steps defined.\n"
       \o "  ")

\* Faulty variant: the quotient is cut off, not rounded.
RoundedQuotient_Truncated(a, b) == a \div b
\* Math.round(a / b) for positive integers a and b: halves round upwards.
\* (For the durations of the model the quotient in double precision rounds
\* to the same integer.)
RoundedQuotient(a, b) == (2 * a + b) \div (2 * b)

\* duration ? Math.round(wordCount / (duration / 60)) : 150, for a duration
\* in whole seconds; a duration of 0 is falsy.
SpeakingRate(transcript, duration) ==
  IF duration.present /\ duration.value # 0
    THEN RoundedQuotient(WordCount(transcript) * 60, duration.value)
    ELSE DefaultSpeakingRate

\* participants ? Math.min(10, participants.length * 2) : 8; an array, also
\* the empty one, is truthy.
ParticipationScore(participants) ==
  IF participants.present
    THEN Min(MaxParticipationScore, Len(participants.value) * 2)
    ELSE DefaultParticipationScore

\* participants?.length || 2
ParticipantCount(participants) ==
  IF participants.present /\ Len(participants.value) # 0
    THEN Len(participants.value)
    ELSE DefaultParticipantCount

generateInsights(transcript, participants, duration) ==
  LET speakingRate == SpeakingRate(transcript, duration)
  IN [participationScore |-> ParticipationScore(participants),
      engagementLevel |-> IF speakingRate > HighSpeakingRate THEN "high"
                          ELSE IF speakingRate > MediumSpeakingRate THEN "medium"
                          ELSE "low",
      meetingEfficiency |-> IF Includes(transcript, "action")
                                 \/ Includes(transcript, "next steps")
                              THEN "high" ELSE "medium",
      followUpNeeded |-> Includes(transcript, "follow up")
                           \/ Includes(transcript, "next meeting"),
      keyMetrics |-> [wordCount |-> WordCount(transcript),
                      estimatedSpeakingRate |-> speakingRate,
                      participantCount |-> ParticipantCount(participants)]]

\* The derived fields the handler computes from its event's properties.
Derive(transcript, participants, duration) ==
  [summary |-> generateMeetingSummary(transcript),
   actionItems |-> extractActionItems(transcript, participants),
   keyTopics |-> extractKeyTopics(transcript),
   sentimentAnalysis |-> analyzeSentiment(transcript),
   decisions |-> extractDecisions(transcript),
   insights |-> generateInsights(transcript, participants, duration)]

\* The analysis functions are pure; their results on the transcripts the
\* processor publishes are tabulated, and computed for every other event.
MockTranscripts ==
  { MockTranscript(body.filename) : body \in { b \in Bodies : ~FilenameMissing(b) } }

MockDerived ==
  [t \in MockTranscripts, d \in Durations |-> Derive(t, Some(MockParticipants), Some(d))]

Analyse(input) ==
  LET participants == Optional(input, "participants")
      duration == Optional(input, "duration")
  IN IF /\ input.transcript \in MockTranscripts
        /\ participants = Some(MockParticipants)
        /\ duration.present
        /\ duration.value \in Durations
       THEN MockDerived[input.transcript, duration.value]
       ELSE Derive(input.transcript, participants, duration)

----------------------------------------------------------------------------
\* Objects written and published by the MeetingSummarizer step.

ProcessingItem(input) ==
  [status |-> "processing", progress |-> 100, filename |-> input.filename,
   localWhisperStatus |-> "Generating intelligent summary...",
   whisperModel |-> input.whisperModel]

AnalysisCompletedItem(input, derived) ==
  [status |-> "completed", progress |-> 100, filename |-> input.filename,
   transcript |-> input.transcript, summary |-> derived.summary,
   actionItems |-> derived.actionItems,
   keyTopics |-> derived.keyTopics,
   sentimentAnalysis |-> derived.sentimentAnalysis,
   decisions |-> derived.decisions, insights |-> derived.insights,
   localWhisperStatus |-> "Summary and analysis completed!",
   whisperModel |-> input.whisperModel]
  @@ CopyField(input, "participants") @@ CopyField(input, "duration")

AnalysisFailedItem(input, message) ==
  [status |-> "failed", progress |-> 100, filename |-> input.filename,
   error |-> "Summarization failed: " \o message,
   localWhisperStatus |-> "Summary generation failed"]

SummaryCompletedEvent(input, derived) ==
  [transcriptionId |-> input.transcriptionId, filename |-> input.filename,
   summary |-> derived.summary,
   actionItems |-> derived.actionItems, keyTopics |-> derived.keyTopics,
   insights |-> derived.insights]

\* Faulty variant: the event carries the action items of the incoming event.
ActionItemsExtractedEvent_FromInput(input, derived) ==
  [transcriptionId |-> input.transcriptionId, filename |-> input.filename,
   actionItems |-> input.actionItems]
  @@ CopyField(input, "participants")
ActionItemsExtractedEvent(input, derived) ==
  [transcriptionId |-> input.transcriptionId, filename |-> input.filename,
   actionItems |-> derived.actionItems]
  @@ CopyField(input, "participants")

----------------------------------------------------------------------------
\* State.

VARIABLES
  now,          \* Date.now()
  faults,       \* store / bus calls that have rejected so far
  store,        \* stream records by <<groupId, id>>
  streamItems,  \* items appended to the stream with add, with multiplicity
  emitted,      \* per trace: the events published, in order
  inbox,        \* events the bus has not handed to a subscribed step yet
  writes,       \* per trace: the stream writes performed, in order
  response,     \* per request: the HTTP response, once returned
  api,          \* per request: the API handler's position and locals
  processor,    \* per trace: the processor handler's position and locals
  summarizer    \* per trace: the summarizer handler's position and locals

vars == << now, faults, store, streamItems, emitted, inbox, writes, response,
           api, processor, summarizer >>

Init ==
  /\ now = 0
  /\ faults = 0
  /\ store = << >>
  /\ streamItems = << >>
  /\ emitted = [r \in Requests |-> << >>]
  /\ inbox = {}
  /\ writes = [r \in Requests |-> << >>]
  /\ response = [r \in Requests |-> NoResponse]
  /\ api = [r \in Requests |-> [pc |-> "idle"]]
  /\ processor = [r \in Requests |-> [pc |-> "idle"]]
  /\ summarizer = [r \in Requests |-> [pc |-> "idle"]]

KeyOf(r) == << TraceIdOf(r), api[r].transcriptionId >>

\* await streams.meetingTranscription.set(traceId, id, data) resolving.
StoreSet(r, stage, key, data) ==
  /\ store' = Put(store, key, data)
  /\ writes' = [writes EXCEPT ![r] =
                  Append(@, [stage |-> stage, op |-> "set", key |-> key, data |-> data])]

\* await context.streams.meetingTranscription.add(data) resolving.
StoreAdd(r, stage, data) ==
  /\ streamItems' = Add(streamItems, data)
  /\ writes' = [writes EXCEPT ![r] =
                  Append(@, [stage |-> stage, op |-> "add", data |-> data])]

\* await emit({ topic, data }) resolving; inbox is written by the caller.
Publish(r, topic, data) ==
  emitted' = [emitted EXCEPT ![r] = Append(@, [topic |-> topic, data |-> data])]

\* A store or bus call rejecting.
Fault == faults < MaxFaults /\ faults' = faults + 1

\* The clock is read only when a request arrives (Date.now() in the id): time
\* is counted from the first arrival and advances while a request is still to
\* arrive.
Tick ==
  /\ now < MaxClock
  /\ \E r \in Requests : api[r].pc # "idle"
  /\ \E r \in Requests : api[r].pc = "idle"
  /\ now' = now + 1
  /\ UNCHANGED << faults, store, streamItems, emitted, inbox, writes, response,
                  api, processor, summarizer >>

----------------------------------------------------------------------------
\* API step: POST /transcribe-meeting.

\* Requests are numbered in the order in which they arrive.
Arrives(r) ==
  /\ api[r].pc = "idle"
  /\ \A q \in Requests : q < r => api[q].pc # "idle"

\* Validation fails: 400, nothing written or published.
IngressReject(r, body) ==
  /\ Arrives(r)
  /\ FilenameMissing(body)
  /\ response' = [response EXCEPT ![r] = MissingFilenameResponse]
  /\ api' = [api EXCEPT ![r] = [pc |-> "done", body |-> body]]
  /\ UNCHANGED << now, faults, store, streamItems, emitted, inbox, writes,
                  processor, summarizer >>

\* Validation passes, the id is generated and the uploading record is set.
IngressWrite(r, body, draw) ==
  /\ Arrives(r)
  /\ ~FilenameMissing(body)
  /\ LET id == TranscriptionId(now, draw)
         key == << TraceIdOf(r), id >>
     IN /\ StoreSet(r, "api", key, UploadingRecord(body))
        /\ api' = [api EXCEPT ![r] =
                     [pc |-> "emit", body |-> body, transcriptionId |-> id,
                      streamResult |-> store'[key],
                      at |-> now, suffix |-> Suffix(draw)]]
  /\ UNCHANGED << now, faults, streamItems, emitted, inbox, response,
                  processor, summarizer >>

\* The set rejects: the catch block answers 400.
IngressWriteFault(r, body, draw) ==
  /\ Arrives(r)
  /\ ~FilenameMissing(body)
  /\ Fault
  /\ response' = [response EXCEPT ![r] = FailedRequestResponse(StoreFaultMessage)]
  /\ api' = [api EXCEPT ![r] =
               [pc |-> "done", body |-> body,
                transcriptionId |-> TranscriptionId(now, draw)]]
  /\ UNCHANGED << now, store, streamItems, emitted, inbox, writes,
                  processor, summarizer >>

\* The meeting-transcription event is published.
IngressEmit(r) ==
  /\ api[r].pc = "emit"
  /\ LET data == IngressEvent(api[r].body, api[r].transcriptionId)
     IN /\ Publish(r, "meeting-transcription", data)
        /\ inbox' = inbox \cup Deliveries(r, "meeting-transcription", data)
  /\ api' = [api EXCEPT ![r].pc = "return"]
  /\ UNCHANGED << now, faults, store, streamItems, writes, response,
                  processor, summarizer >>

\* The emit rejects: the catch block answers 400.
IngressEmitFault(r) ==
  /\ api[r].pc = "emit"
  /\ Fault
  /\ response' = [response EXCEPT ![r] = FailedRequestResponse(BusFaultMessage)]
  /\ api' = [api EXCEPT ![r].pc = "done"]
  /\ UNCHANGED << now, store, streamItems, emitted, inbox, writes,
                  processor, summarizer >>

\* The handler resumes after the emit and answers 200.
IngressReturn(r) ==
  /\ api[r].pc = "return"
  /\ response' = [response EXCEPT ![r] =
                    AcceptedResponse(r, api[r].body, api[r].transcriptionId,
                                     api[r].streamResult)]
  /\ api' = [api EXCEPT ![r].pc = "done"]
  /\ UNCHANGED << now, faults, store, streamItems, emitted, inbox, writes,
                  processor, summarizer >>

----------------------------------------------------------------------------
\* MeetingTranscriptionProcessor step.

ProcessorDelivery(r) ==
  { d \in inbox : d.stage = "processor" /\ d.trace = TraceIdOf(r) }

\* The step at which the processor's try block is waiting, if any.
ProcessorAwaits(r) ==
  IF processor[r].pc \in {"loop", "finalize"} THEN "store"
  ELSE IF processor[r].pc = "emit" THEN "bus"
  ELSE "none"

\* The event is handed to the handler, which sets transcribing / 10.
TranscriptionStart(r) ==
  /\ processor[r].pc = "idle"
  /\ \E d \in ProcessorDelivery(r) :
       /\ inbox' = inbox \ {d}
       /\ StoreSet(r, "processor", << TraceIdOf(r), d.data.transcriptionId >>,
                   TranscribingRecord(d.data, 10, "initializing"))
       /\ processor' = [processor EXCEPT ![r] =
                          [pc |-> "loop", step |-> 0, input |-> d.data]]
  /\ UNCHANGED << now, faults, streamItems, emitted, response, api, summarizer >>

\* The event is handed to the handler and its first set rejects.
TranscriptionStartFault(r) ==
  /\ processor[r].pc = "idle"
  /\ Fault
  /\ \E d \in ProcessorDelivery(r) :
       /\ inbox' = inbox \ {d}
       /\ processor' = [processor EXCEPT ![r] =
                          [pc |-> "catch", step |-> 0, input |-> d.data,
                           error |-> StoreFaultMessage]]
  /\ UNCHANGED << now, store, streamItems, emitted, writes, response, api,
                  summarizer >>

\* One turn of the loop over transcriptionSteps: the delay, then the set.
TranscriptionCheckpoint(r) ==
  /\ processor[r].pc = "loop"
  /\ LET input == processor[r].input
         step == TranscriptionSteps[processor[r].step + 1]
     IN /\ StoreSet(r, "processor", << TraceIdOf(r), input.transcriptionId >>,
                    TranscribingRecord(input, step.progress, step.whisperStatus))
        /\ processor' = [processor EXCEPT
                           ![r].step = @ + 1,
                           ![r].pc = IF processor[r].step + 1 = Len(TranscriptionSteps)
                                       THEN "finalize" ELSE "loop"]
  /\ UNCHANGED << now, faults, streamItems, emitted, inbox, response, api,
                  summarizer >>

\* The mock results are produced and the completed record is set.
TranscriptionComplete(r, duration) ==
  /\ processor[r].pc = "finalize"
  /\ LET input == processor[r].input
     IN /\ StoreSet(r, "processor", << TraceIdOf(r), input.transcriptionId >>,
                    CompletedRecord(input, duration))
        /\ processor' = [processor EXCEPT
                           ![r] = [pc |-> "emit", step |-> @.step, input |-> input,
                                   duration |-> duration]]
  /\ UNCHANGED << now, faults, streamItems, emitted, inbox, response, api,
                  summarizer >>

\* Faulty variant: the event is published and control still enters the catch
\* block, as if the emit rejected after handing the event to the bus.
TranscriptionEmitCompleted_ThenCatch(r) ==
  /\ processor[r].pc = "emit"
  /\ LET data == CompletedEvent(processor[r].input, processor[r].duration)
     IN /\ Publish(r, "transcription-completed", data)
        /\ inbox' = inbox \cup Deliveries(r, "transcription-completed", data)
  /\ processor' = [processor EXCEPT
                     ![r] = [pc |-> "catch", step |-> @.step, input |-> @.input,
                             error |-> BusFaultMessage]]
  /\ UNCHANGED << now, faults, store, streamItems, writes, response, api,
                  summarizer >>

\* transcription-completed is published; the handler returns.
TranscriptionEmitCompleted(r) ==
  /\ processor[r].pc = "emit"
  /\ LET data == CompletedEvent(processor[r].input, processor[r].duration)
     IN /\ Publish(r, "transcription-completed", data)
        /\ inbox' = inbox \cup Deliveries(r, "transcription-completed", data)
  /\ processor' = [processor EXCEPT ![r].pc = "done"]
  /\ UNCHANGED << now, faults, store, streamItems, writes, response, api,
                  summarizer >>

\* A set or the emit of the try block rejects: control enters the catch block.
TranscriptionFault(r) ==
  /\ ProcessorAwaits(r) # "none"
  /\ Fault
  /\ processor' = [processor EXCEPT
                     ![r] = [pc |-> "catch", step |-> @.step, input |-> @.input,
                             error |-> IF ProcessorAwaits(r) = "store"
                                         THEN StoreFaultMessage ELSE BusFaultMessage]]
  /\ UNCHANGED << now, store, streamItems, emitted, inbox, writes, response, api,
                  summarizer >>

\* catch block: the failed record is set.
TranscriptionCatchWrite(r) ==
  /\ processor[r].pc = "catch"
  /\ LET input == processor[r].input
     IN StoreSet(r, "processor", << TraceIdOf(r), input.transcriptionId >>,
                 FailedRecord(input, processor[r].error))
  /\ processor' = [processor EXCEPT ![r].pc = "emitFailed"]
  /\ UNCHANGED << now, faults, streamItems, emitted, inbox, response, api,
                  summarizer >>

\* catch block: transcription-failed is published; the handler returns.
TranscriptionEmitFailed(r) ==
  /\ processor[r].pc = "emitFailed"
  /\ LET data == FailedEvent(processor[r].input, processor[r].error)
     IN /\ Publish(r, "transcription-failed", data)
        /\ inbox' = inbox \cup Deliveries(r, "transcription-failed", data)
  /\ processor' = [processor EXCEPT ![r].pc = "doneFailed"]
  /\ UNCHANGED << now, faults, store, streamItems, writes, response, api,
                  summarizer >>

\* The set or the emit of the catch block rejects: the handler rejects.
TranscriptionCatchFault(r) ==
  /\ processor[r].pc \in {"catch", "emitFailed"}
  /\ Fault
  /\ processor' = [processor EXCEPT ![r].pc = "rejected"]
  /\ UNCHANGED << now, store, streamItems, emitted, inbox, writes, response, api,
                  summarizer >>

----------------------------------------------------------------------------
\* MeetingSummarizer step.

SummarizerDelivery(r) ==
  { d \in inbox : d.stage = "summarizer" /\ d.trace = TraceIdOf(r) }

SummarizerAwaits(r) ==
  IF summarizer[r].pc = "analyze" THEN "store"
  ELSE IF summarizer[r].pc \in {"emitSummary", "emitActions"} THEN "bus"
  ELSE "none"

\* The event is handed to the handler, which adds the processing item.
AnalysisStart(r) ==
  /\ summarizer[r].pc = "idle"
  /\ \E d \in SummarizerDelivery(r) :
       /\ inbox' = inbox \ {d}
       /\ StoreAdd(r, "summarizer", ProcessingItem(d.data))
       /\ summarizer' = [summarizer EXCEPT ![r] = [pc |-> "analyze", input |-> d.data]]
  /\ UNCHANGED << now, faults, store, emitted, response, api, processor >>

\* The event is handed to the handler and its first add rejects.
AnalysisStartFault(r) ==
  /\ summarizer[r].pc = "idle"
  /\ Fault
  /\ \E d \in SummarizerDelivery(r) :
       /\ inbox' = inbox \ {d}
       /\ summarizer' = [summarizer EXCEPT
                           ![r] = [pc |-> "catch", input |-> d.data,
                                   error |-> StoreFaultMessage]]
  /\ UNCHANGED << now, store, streamItems, emitted, writes, response, api,
                  processor >>

\* The analysis functions run and the final item is added.
AnalysisFinal(r) ==
  /\ summarizer[r].pc = "analyze"
  /\ LET input == summarizer[r].input
         derived == Analyse(input)
     IN /\ StoreAdd(r, "summarizer", AnalysisCompletedItem(input, derived))
        /\ summarizer' = [summarizer EXCEPT
                            ![r] = [pc |-> "emitSummary", input |-> input,
                                    derived |-> derived]]
  /\ UNCHANGED << now, faults, store, emitted, inbox, response, api, processor >>

\* summary-completed is published.
AnalysisEmitSummary(r) ==
  /\ summarizer[r].pc = "emitSummary"
  /\ LET data == SummaryCompletedEvent(summarizer[r].input, summarizer[r].derived)
     IN /\ Publish(r, "summary-completed", data)
        /\ inbox' = inbox \cup Deliveries(r, "summary-completed", data)
  /\ summarizer' = [summarizer EXCEPT ![r].pc = "emitActions"]
  /\ UNCHANGED << now, faults, store, streamItems, writes, response, api,
                  processor >>

\* action-items-extracted is published; the handler returns.
AnalysisEmitActions(r) ==
  /\ summarizer[r].pc = "emitActions"
  /\ LET data == ActionItemsExtractedEvent(summarizer[r].input, summarizer[r].derived)
     IN /\ Publish(r, "action-items-extracted", data)
        /\ inbox' = inbox \cup Deliveries(r, "action-items-extracted", data)
  /\ summarizer' = [summarizer EXCEPT ![r].pc = "done"]
  /\ UNCHANGED << now, faults, store, streamItems, writes, response, api,
                  processor >>

\* An add or an emit of the try block rejects: control enters the catch block.
AnalysisFault(r) ==
  /\ SummarizerAwaits(r) # "none"
  /\ Fault
  /\ summarizer' = [summarizer EXCEPT
                      ![r] = [pc |-> "catch", input |-> @.input,
                              error |-> IF SummarizerAwaits(r) = "store"
                                          THEN StoreFaultMessage ELSE BusFaultMessage]]
  /\ UNCHANGED << now, store, streamItems, emitted, inbox, writes, response, api,
                  processor >>

\* catch block: the failed item is added, then the error is thrown again.
AnalysisCatchWrite(r) ==
  /\ summarizer[r].pc = "catch"
  /\ StoreAdd(r, "summarizer", AnalysisFailedItem(summarizer[r].input, summarizer[r].error))
  /\ summarizer' = [summarizer EXCEPT ![r].pc = "rethrown"]
  /\ UNCHANGED << now, faults, store, emitted, inbox, response, api, processor >>

\* The add of the catch block rejects: the handler rejects.
AnalysisCatchFault(r) ==
  /\ summarizer[r].pc = "catch"
  /\ Fault
  /\ summarizer' = [summarizer EXCEPT ![r].pc = "rejected"]
  /\ UNCHANGED << now, store, streamItems, emitted, inbox, writes, response, api,
                  processor >>

----------------------------------------------------------------------------
\* Specifications.

\* A request arrives and every store and bus call resolves.
SubmitFrom(draws) ==
  \E r \in Requests, body \in Bodies :
     \/ IngressReject(r, body)
     \/ \E draw \in draws : IngressWrite(r, body, draw)

\* In the pipeline every request in one clock tick is given the same suffix.
Submit == SubmitFrom(SharedPrefixDraws)

Pipeline ==
  \E r \in Requests :
     \/ IngressEmit(r)
     \/ IngressReturn(r)
     \/ TranscriptionStart(r)
     \/ TranscriptionCheckpoint(r)
     \/ \E duration \in Durations : TranscriptionComplete(r, duration)
     \/ TranscriptionEmitCompleted(r)
     \/ AnalysisStart(r)
     \/ AnalysisFinal(r)
     \/ AnalysisEmitSummary(r)
     \/ AnalysisEmitActions(r)

\* Steps of request r in which a store or bus call rejects, and the steps
\* that follow one.
FaultyOf(r) ==
  \/ \E body \in Bodies, draw \in SharedPrefixDraws : IngressWriteFault(r, body, draw)
  \/ IngressEmitFault(r)
  \/ TranscriptionStartFault(r)
  \/ TranscriptionFault(r)
  \/ TranscriptionCatchWrite(r)
  \/ TranscriptionEmitFailed(r)
  \/ TranscriptionCatchFault(r)
  \/ AnalysisStartFault(r)
  \/ AnalysisFault(r)
  \/ AnalysisCatchWrite(r)
  \/ AnalysisCatchFault(r)

Faulty == \E r \in Requests : FaultyOf(r)

Next == Tick \/ Submit \/ Pipeline \/ Faulty

Spec == Init /\ [][Next]_vars

\* No store or bus fault; every enabled pipeline step is eventually taken.
NextNoFault == Tick \/ Submit \/ Pipeline

LiveSpec == Init /\ [][NextNoFault]_vars /\ WF_vars(Pipeline)

\* A call of request r's handlers has rejected.
Faulted(r) ==
  \/ /\ response[r].status = 400
     /\ response[r].body.error = "Failed to process transcription request"
  \/ "error" \in DOMAIN processor[r]
  \/ "error" \in DOMAIN summarizer[r]

\* Store and bus calls reject for one request only; the steps of the other
\* requests' handlers are scheduled fairly.
FaultyForOne ==
  \E r \in Requests :
     /\ \A q \in Requests \ {r} : ~Faulted(q)
     /\ FaultyOf(r)

IsolationNext == Tick \/ Submit \/ Pipeline \/ FaultyForOne

IsolationSpec == Init /\ [][IsolationNext]_vars /\ WF_vars(Pipeline)

\* The summarizer step alone, handed each of the sample events.
SampleEvent(transcript, participants, duration) ==
  [filename |-> "sample.wav", transcriptionId |-> TranscriptionId(0, << "i" >>),
   transcript |-> transcript, whisperModel |-> "whisper-large-v3"]
  @@ (IF participants.present THEN "participants" :> participants.value ELSE EmptyObject)
  @@ (IF duration.present THEN "duration" :> duration.value ELSE EmptyObject)

AnalysisInit ==
  /\ now = 0
  /\ faults = 0
  /\ store = << >>
  /\ streamItems = << >>
  /\ emitted = [r \in Requests |-> << >>]
  /\ \E t \in SampleTranscripts, p \in SampleParticipants, d \in SampleDurations :
       inbox = { [stage |-> "summarizer", trace |-> TraceIdOf(1),
                  data |-> SampleEvent(t, p, d)] }
  /\ writes = [r \in Requests |-> << >>]
  /\ response = [r \in Requests |-> NoResponse]
  /\ api = [r \in Requests |-> [pc |-> "idle"]]
  /\ processor = [r \in Requests |-> [pc |-> "idle"]]
  /\ summarizer = [r \in Requests |-> [pc |-> "idle"]]

AnalysisNext ==
  \E r \in Requests :
     \/ AnalysisStart(r)
     \/ AnalysisFinal(r)
     \/ AnalysisEmitSummary(r)
     \/ AnalysisEmitActions(r)

AnalysisSpec == AnalysisInit /\ [][AnalysisNext]_vars

\* The API step alone, over every random draw.
IngressStep ==
  \E r \in Requests :
     \/ IngressEmit(r)
     \/ IngressReturn(r)
     \/ \E body \in Bodies, draw \in RandomDraws : IngressWriteFault(r, body, draw)
     \/ IngressEmitFault(r)

IngressNext == Tick \/ SubmitFrom(RandomDraws) \/ IngressStep

IngressSpec == Init /\ [][IngressNext]_vars

----------------------------------------------------------------------------
\* Observations used by the properties.

Accepted(r) == response[r].status = 200

HasRecord(r) == "transcriptionId" \in DOMAIN api[r] /\ KeyOf(r) \in DOMAIN store

RecordOf(r) == store[KeyOf(r)]

HasError(rec) == "error" \in DOMAIN rec /\ rec.error # ""

HasTranscript(rec) == "transcript" \in DOMAIN rec /\ rec.transcript # ""

TopicsOf(r) == { emitted[r][i].topic : i \in DOMAIN emitted[r] }

EventsOn(r, topic) == SelectSeq(emitted[r], LAMBDA e : e.topic = topic)

WritesBy(r, stage) == SelectSeq(writes[r], LAMBDA w : w.stage = stage)

ObservedRecords == { store[k] : k \in DOMAIN store } \cup DOMAIN streamItems

----------------------------------------------------------------------------
\* C1: when no store or bus call fails and the stages are scheduled fairly,
\* every request that arrived with a non-empty filename leads to its record
\* (traceId, transcriptionId) having status completed, progress 100 and a
\* non-empty transcript.
C1_HappyPathCompletes ==
  \A r \in Requests :
    (api[r].pc # "idle" /\ ~IsFalsy(api[r].body.filename))
      ~> (/\ HasRecord(r)
          /\ RecordOf(r).status = "completed"
          /\ RecordOf(r).progress = 100
          /\ HasTranscript(RecordOf(r)))

C1_Witness ==
  \E r \in Requests :
    /\ Accepted(r)
    /\ HasRecord(r)
    /\ RecordOf(r).status = "completed"
    /\ RecordOf(r).progress = 100
    /\ HasTranscript(RecordOf(r))

\* C2: once transcription-failed has been published for a record, no later
\* step adds a write of the Analysis Stage or a summary-completed event for it.
C2_NoAnalysisAfterFailure ==
  [][ \A r \in Requests :
        "transcription-failed" \in TopicsOf(r) =>
          /\ WritesBy(r, "summarizer")' = WritesBy(r, "summarizer")
          /\ EventsOn(r, "summary-completed")' = EventsOn(r, "summary-completed") ]_vars

C2_Witness ==
  \E r \in Requests :
    /\ "transcription-failed" \in TopicsOf(r)
    /\ processor[r].pc = "doneFailed"
    /\ summarizer[r].pc = "idle"

C4_ProgressNonDecreasing ==
  [][ \A k \in DOMAIN store :
        (store'[k].status # "failed" \/ store'[k].status = store[k].status)
          => store'[k].progress >= store[k].progress ]_vars

C4_Witness ==
  \E k \in DOMAIN store : store[k].status = "transcribing" /\ store[k].progress = 90

\* C5: a request whose filename is missing or empty is answered 400 with the
\* error "Missing required field: filename"; no record is created and no
\* meeting-transcription event is published for it.
C5_MissingFilenameRejected ==
  \A r \in Requests :
    (api[r].pc # "idle" /\ IsFalsy(api[r].body.filename)) =>
      /\ response[r].status = 400
      /\ response[r].body.error = "Missing required field: filename"
      /\ writes[r] = << >>
      /\ emitted[r] = << >>
      /\ \A k \in DOMAIN store : k[1] # TraceIdOf(r)
      /\ \A d \in inbox : d.trace # TraceIdOf(r)

C5_Witness ==
  /\ \E r \in Requests : api[r].pc = "done" /\ api[r].body.filename = ""
                          /\ response[r].status = 400
  /\ \E r \in Requests : api[r].pc = "done" /\ api[r].body.filename = NoValue
                          /\ response[r].status = 400

\* C6: a request answered 200 has made the API step perform exactly one store
\* write (status uploading, progress 0) and publish exactly one
\* meeting-transcription event, both under the id of the response.
C6_OneWriteOnePublish ==
  \A r \in Requests :
    Accepted(r) =>
      LET ws == WritesBy(r, "api")
          es == EventsOn(r, "meeting-transcription")
          id == response[r].body.transcriptionId
      IN /\ Len(ws) = 1
         /\ ws[1].data.status = "uploading"
         /\ ws[1].data.progress = 0
         /\ ws[1].key = << TraceIdOf(r), id >>
         /\ Len(es) = 1
         /\ es[1].data.transcriptionId = id

C6_Witness ==
  \E r \in Requests :
    /\ Accepted(r)
    /\ Len(WritesBy(r, "api")) = 1
    /\ Len(EventsOn(r, "meeting-transcription")) = 1

\* C7: the response to an accepted request carries status "processing".
C7_AckStatusProcessing ==
  \A r \in Requests : Accepted(r) => response[r].body.status = "processing"

Returns(r) == api[r].pc = "return" /\ api'[r].pc = "done"

\* C9 (as claimed): when the API handler answers 200, the record reads
\* status uploading, progress 0.
C9_AckReadsUploading ==
  [][ \A r \in Requests :
        Returns(r) =>
          /\ KeyOf(r) \in DOMAIN store'
          /\ store'[KeyOf(r)].status = "uploading"
          /\ store'[KeyOf(r)].progress = 0 ]_vars

\* C9 (amended): when the API handler answers 200, the record exists; it reads
\* status uploading, progress 0 as long as the Transcription Stage has not
\* written to it, and the status and progress of the Transcription Stage's
\* last write otherwise.
C9_AckReadsUploadingOrLater ==
  [][ \A r \in Requests :
        Returns(r) =>
          /\ KeyOf(r) \in DOMAIN store'
          /\ LET rec == store'[KeyOf(r)]
                 ws == WritesBy(r, "processor")
             IN IF ws = << >>
                  THEN rec.status = "uploading" /\ rec.progress = 0
                  ELSE /\ rec.status = ws[Len(ws)].data.status
                       /\ rec.progress = ws[Len(ws)].data.progress
                       /\ rec.status \in {"transcribing", "completed", "failed"} ]_vars

C9_Witness ==
  \E r \in Requests :
    /\ Accepted(r)
    /\ processor[r].pc = "idle"
    /\ RecordOf(r).status = "uploading"
    /\ RecordOf(r).progress = 0

\* C10: in the writes of one record, every write of the Analysis Stage comes
\* after the Transcription Stage's write of status completed, and no write of
\* the Transcription Stage comes after a write of the Analysis Stage.
C10_StagesInSequence ==
  \A r \in Requests :
    \A i \in DOMAIN writes[r] :
      writes[r][i].stage = "summarizer" =>
        /\ \E j \in 1..(i - 1) :
             /\ writes[r][j].stage = "processor"
             /\ writes[r][j].data.status = "completed"
        /\ \A j \in DOMAIN writes[r] : j > i => writes[r][j].stage # "processor"

C10_Witness ==
  \E r \in Requests :
    /\ Len(WritesBy(r, "summarizer")) = 2
    /\ processor[r].pc = "done"

----------------------------------------------------------------------------
\* Fault handling of the two event steps.

ProcessorEnded(r) == processor[r].pc \in {"done", "doneFailed", "rejected"}

SummarizerEnded(r) == summarizer[r].pc \in {"done", "rethrown", "rejected"}

\* The final add of the summarizer's try block has resolved.
AnalysisSucceeded(r) == summarizer[r].pc \in {"emitSummary", "emitActions", "done"}

\* The handler's try block has been left through a rejected call.
ProcessorFaulted(r) == "error" \in DOMAIN processor[r]

SummarizerFaulted(r) == "error" \in DOMAIN summarizer[r]

IsTerminal(status) == status \in {"completed", "failed"}

StatusesWrittenBy(r, stage) ==
  { WritesBy(r, stage)[i].data.status : i \in DOMAIN WritesBy(r, stage) }

\* C11: every write of the Analysis Stage is a write to the record
\* (traceId, transcriptionId) of its request, and once the stage's final write
\* is done that record has status completed, progress 100, the derived action
\* items, and the transcript, duration and participants of the event.
C11_AnalysisOverlaysRecord ==
  \A r \in Requests :
    /\ \A i \in DOMAIN writes[r] :
         writes[r][i].stage = "summarizer" =>
           /\ writes[r][i].op = "set"
           /\ writes[r][i].key = KeyOf(r)
    /\ AnalysisSucceeded(r) =>
         /\ HasRecord(r)
         /\ RecordOf(r).status = "completed"
         /\ RecordOf(r).progress = 100
         /\ RecordOf(r).actionItems = summarizer[r].derived.actionItems
         /\ RecordOf(r).transcript = summarizer[r].input.transcript
         /\ RecordOf(r).duration = summarizer[r].input.duration
         /\ RecordOf(r).participants = summarizer[r].input.participants

\* C12: when the Analysis Stage has written status failed for a request,
\* neither summary-completed nor action-items-extracted has been published
\* for it.
C12_NoCompletionEventWhenFailed ==
  \A r \in Requests :
    "failed" \in StatusesWrittenBy(r, "summarizer") =>
      /\ "summary-completed" \notin TopicsOf(r)
      /\ "action-items-extracted" \notin TopicsOf(r)

\* C13: a fault of the Analysis Stage stays inside the handler: the failed
\* write carries the error "analysis failed: <message>" and the handler then
\* returns; it never ends by throwing.
C13_FaultHandledInsideStage ==
  \A r \in Requests :
    /\ summarizer[r].pc \notin {"rethrown", "rejected"}
    /\ \A i \in DOMAIN writes[r] :
         (writes[r][i].stage = "summarizer" /\ writes[r][i].data.status = "failed")
           => writes[r][i].data.error = "analysis failed: " \o summarizer[r].error

\* C14: when a handler of the Transcription Stage that took a fault has ended,
\* its last write is status failed, progress 0, the fault's message as error
\* and engine status failed, and after that write it has published
\* transcription-failed with the id, filename, error and model of its event.
C14_FaultWritesFailedThenPublishes ==
  \A r \in Requests :
    (ProcessorFaulted(r) /\ ProcessorEnded(r)) =>
      LET ws == WritesBy(r, "processor")
          es == EventsOn(r, "transcription-failed")
          input == processor[r].input
      IN /\ ws # << >>
         /\ ws[Len(ws)].data.status = "failed"
         /\ ws[Len(ws)].data.progress = 0
         /\ ws[Len(ws)].data.error = processor[r].error
         /\ ws[Len(ws)].data.localWhisperStatus = "failed"
         /\ Len(es) = 1
         /\ es[1].data.transcriptionId = input.transcriptionId
         /\ es[1].data.filename = input.filename
         /\ es[1].data.error = processor[r].error
         /\ es[1].data.whisperModel = input.model

\* C15: a stage execution that has ended has performed a terminal write
\* (status completed or failed), whatever store and bus calls rejected.
C15_EndedWithTerminalWrite ==
  \A r \in Requests :
    /\ ProcessorEnded(r) =>
         \E st \in StatusesWrittenBy(r, "processor") : IsTerminal(st)
    /\ SummarizerEnded(r) =>
         \E st \in StatusesWrittenBy(r, "summarizer") : IsTerminal(st)

\* C16: as long as at most one store or bus call has rejected, no stage has
\* written status failed and no handler has ended by throwing: the rejected
\* call was made again.
C16_SingleFaultTolerated ==
  faults <= 1 =>
    \A r \in Requests :
      /\ "failed" \notin StatusesWrittenBy(r, "processor")
      /\ "failed" \notin StatusesWrittenBy(r, "summarizer")
      /\ processor[r].pc # "rejected"
      /\ summarizer[r].pc \notin {"rethrown", "rejected"}

\* What belongs to request b: its record, its events and deliveries, and the
\* state of its handlers.
RecordAt(st, key) == IF key \in DOMAIN st THEN << st[key] >> ELSE << >>

OwnedBy(b) ==
  << IF "transcriptionId" \in DOMAIN api[b] THEN RecordAt(store, KeyOf(b)) ELSE << >>,
     emitted[b], { d \in inbox : d.trace = TraceIdOf(b) },
     response[b], processor[b], summarizer[b] >>

\* C17: a step in which a call of request a's handlers rejects, or in which
\* one of a's catch blocks runs, changes nothing that belongs to another
\* request b (its record, its events, its handlers); and while store and bus
\* calls reject for other requests only, every request that arrived with a
\* non-empty filename reaches a terminal record.
C17_FaultsIsolated ==
  /\ [][ \A a, b \in Requests :
           (a # b /\ FaultyOf(a)) => OwnedBy(b)' = OwnedBy(b) ]_vars
  /\ \A b \in Requests :
       (api[b].pc # "idle" /\ ~IsFalsy(api[b].body.filename))
         ~> (Faulted(b) \/ (HasRecord(b) /\ IsTerminal(RecordOf(b).status)))

C17_Witness ==
  \E a, b \in Requests :
    /\ a # b
    /\ ProcessorFaulted(a) /\ HasRecord(a) /\ RecordOf(a).status = "failed"
    /\ HasRecord(b) /\ api[a].transcriptionId = api[b].transcriptionId
    /\ ~Faulted(b) /\ HasRecord(b) /\ RecordOf(b).status = "completed"

\* Executions of a stage that are running or about to be started for the
\* record of request r: the events handed to the stage and not yet taken, and
\* the handler that has not returned.
TranscriptionsInFlight(r) ==
  Cardinality(ProcessorDelivery(r))
    + (IF processor[r].pc \in {"loop", "finalize", "emit", "catch", "emitFailed"}
         THEN 1 ELSE 0)

AnalysesInFlight(r) ==
  Cardinality(SummarizerDelivery(r))
    + (IF summarizer[r].pc \in {"analyze", "emitSummary", "emitActions", "catch"}
         THEN 1 ELSE 0)

\* C18: for every record at most one execution of the Transcription Stage and
\* at most one of the Analysis Stage is in flight, and no more than one event
\* ever starts either stage for it.
C18_OneExecutionPerStage ==
  \A r \in Requests :
    /\ TranscriptionsInFlight(r) <= 1
    /\ AnalysesInFlight(r) <= 1
    /\ Len(EventsOn(r, "meeting-transcription")) <= 1
    /\ Len(EventsOn(r, "transcription-completed")) <= 1

C18_Witness ==
  \E r1, r2 \in Requests :
    /\ r1 # r2
    /\ TranscriptionsInFlight(r1) = 1 /\ processor[r1].pc = "loop"
    /\ TranscriptionsInFlight(r2) = 1 /\ processor[r2].pc = "loop"

----------------------------------------------------------------------------
\* The analysis functions, observed on the summarizer's locals.

Analysed(r) == "derived" \in DOMAIN summarizer[r]

\* The lines extractActionItems retains, in transcript order.
RetainedLines(transcript) ==
  SelectSeq(Split(ToLowerCase(transcript), "\n"), IsActionLine)

\* The participants whose first name token occurs in the line, by position.
MatchingParticipants(line, participants) ==
  IF participants.present
    THEN { i \in DOMAIN participants.value :
             Includes(line, FirstNameToken(participants.value[i])) }
    ELSE {}

FirstOf(S) == CHOOSE i \in S : \A j \in S : i <= j

\* C20 (as claimed): every retained action line is attributed to the first
\* participant whose lowercased first name token occurs in the line, and to
\* "Team member" when there is none or participants is absent; the action
\* items of the scenario transcript include a line attributed to John.
C20_AttributedToFirstMatch ==
  \A r \in Requests :
    Analysed(r) =>
      LET input == summarizer[r].input
          participants == Optional(input, "participants")
          kept == RetainedLines(input.transcript)
          items == summarizer[r].derived.actionItems
      IN /\ \A i \in DOMAIN kept :
              i <= Len(items) =>
                LET matching == MatchingParticipants(kept[i], participants)
                    label == IF matching = {} THEN "Team member"
                             ELSE participants.value[FirstOf(matching)]
                IN items[i] = label \o ": " \o Trim(kept[i])
         /\ input.transcript = ScenarioTranscript =>
              \E i \in DOMAIN items :
                 \E name \in {"John", "John Doe"} :
                    items[i] = name \o ": " \o ToLowerCase(ScenarioTranscript)

\* C20 (amended): every retained action line is attributed to the first
\* participant whose lowercased first name token occurs in the line, by that
\* participant's full name if it is not empty; it is attributed to
\* "Team member" when no participant matches, when participants is absent and
\* when the first matching name is empty. The scenario transcript's line is
\* attributed to "John Doe" when that is the first matching participant and
\* to "Team member" when participants is absent.
C20_AttributedToFirstNamedMatch ==
  \A r \in Requests :
    Analysed(r) =>
      LET input == summarizer[r].input
          participants == Optional(input, "participants")
          kept == RetainedLines(input.transcript)
          items == summarizer[r].derived.actionItems
      IN /\ \A i \in DOMAIN kept :
              i <= Len(items) =>
                LET matching == MatchingParticipants(kept[i], participants)
                    label == IF matching = {} THEN "Team member"
                             ELSE IF participants.value[FirstOf(matching)] = ""
                                    THEN "Team member"
                                    ELSE participants.value[FirstOf(matching)]
                IN items[i] = label \o ": " \o Trim(kept[i])
         /\ Len(items) = Min(Len(kept), MaxActionItems) \/ kept = << >>
         /\ input.transcript = ScenarioTranscript =>
              /\ Len(items) = 1
              /\ (participants.present /\ participants.value # << >>
                    /\ participants.value[1] = "John Doe")
                   => items[1] = "John Doe: " \o ToLowerCase(ScenarioTranscript)
              /\ ~participants.present
                   => items[1] = "Team member: " \o ToLowerCase(ScenarioTranscript)

C20_Witness ==
  \E r \in Requests :
    /\ Analysed(r)
    /\ summarizer[r].input.transcript = ScenarioTranscript
    /\ summarizer[r].derived.actionItems =
         << "John Doe: we decided to ship friday. john will follow up with qa." >>

----------------------------------------------------------------------------
\* generateInsights.

\* C21: when the event has zero participants (none given, or an empty list)
\* and no known duration, the insights have participationScore 8 and the
\* default speaking rate 150; when it has participants, participationScore
\* is min(10, 2 * participantCount).
C21_InsightsDefaults ==
  \A r \in Requests :
    Analysed(r) =>
      LET input == summarizer[r].input
          participants == Optional(input, "participants")
          duration == Optional(input, "duration")
          insights == summarizer[r].derived.insights
          zeroParticipants == ~participants.present \/ participants.value = << >>
      IN /\ (zeroParticipants /\ ~duration.present) =>
              /\ insights.participationScore = 8
              /\ insights.keyMetrics.estimatedSpeakingRate = 150
         /\ ~zeroParticipants =>
              insights.participationScore = Min(10, 2 * Len(participants.value))

----------------------------------------------------------------------------
\* extractActionItems.

EndsWith(s, t) == Len(t) <= Len(s) /\ SubSeq(s, Len(s) - Len(t) + 1, Len(s)) = t

\* C22: the action items are at most 5; they are the 3 fixed generic items
\* exactly when no line of the transcript contains an action word and is
\* longer than 30 characters; otherwise they are made from the first (up to
\* 5) such lines, in transcript order.
C22_ActionItemsSize ==
  \A r \in Requests :
    Analysed(r) =>
      LET kept == RetainedLines(summarizer[r].input.transcript)
          items == summarizer[r].derived.actionItems
      IN /\ Len(items) <= 5
         /\ items = DefaultActionItems <=> kept = << >>
         /\ kept # << >> =>
              /\ Len(items) = Min(Len(kept), 5)
              /\ \A i \in DOMAIN items : EndsWith(items[i], ": " \o Trim(kept[i]))

C22_Witness ==
  \E r \in Requests :
    /\ Analysed(r)
    /\ Len(RetainedLines(summarizer[r].input.transcript)) = 6
    /\ Len(summarizer[r].derived.actionItems) = 5
    /\ EndsWith(summarizer[r].derived.actionItems[5],
                ": item five: we will archive the old builds.")

----------------------------------------------------------------------------
\* extractKeyTopics.

\* At least two keywords of the list occur in the text.
TwoPresent(text, keywords) ==
  \E i, j \in DOMAIN keywords :
     i # j /\ Includes(text, keywords[i]) /\ Includes(text, keywords[j])

\* C23: a topic of the table is among the key topics exactly when at least 2
\* of its keywords occur in the lowercased transcript; when no topic
\* qualifies the key topics are exactly the 2 generic ones, so they are never
\* empty.
C23_TopicIffTwoKeywords ==
  \A r \in Requests :
    Analysed(r) =>
      LET text == ToLowerCase(summarizer[r].input.transcript)
          topics == summarizer[r].derived.keyTopics
          qualifying == { i \in DOMAIN topicKeywords :
                            TwoPresent(text, topicKeywords[i].keywords) }
      IN /\ \A i \in DOMAIN topicKeywords :
              (\E n \in DOMAIN topics : topics[n] = topicKeywords[i].topic)
                <=> i \in qualifying
         /\ qualifying = {} =>
              topics = << "General Discussion", "Team Coordination" >>
         /\ topics # << >>

C23_Witness ==
  \E r \in Requests :
    /\ Analysed(r)
    /\ Includes(summarizer[r].input.transcript, "PROJECT Timeline")
    /\ summarizer[r].derived.keyTopics = << "Project Management", "Budget & Finance" >>

----------------------------------------------------------------------------
\* analyzeSentiment.

\* C24: overall is positive exactly when positiveCount > negativeCount,
\* negative exactly when negativeCount > positiveCount and neutral exactly
\* when they are equal; confidence is min(0.95, 0.6 + 0.1 * |positiveCount -
\* negativeCount|), hence between 0.6 and 0.95 (here in hundredths);
\* energyLevel is high exactly when the lowercased text contains "excited" or
\* "enthusiastic", and medium otherwise.
C24_SentimentByCounts ==
  \A r \in Requests :
    Analysed(r) =>
      LET text == ToLowerCase(summarizer[r].input.transcript)
          sentiment == summarizer[r].derived.sentimentAnalysis
          pos == Cardinality({ w \in { positiveWords[i] : i \in DOMAIN positiveWords } :
                                  Includes(text, w) })
          neg == Cardinality({ w \in { negativeWords[i] : i \in DOMAIN negativeWords } :
                                  Includes(text, w) })
          gap == IF pos > neg THEN pos - neg ELSE neg - pos
      IN /\ sentiment.positiveIndicators = pos
         /\ sentiment.negativeIndicators = neg
         /\ sentiment.overall = "positive" <=> pos > neg
         /\ sentiment.overall = "negative" <=> neg > pos
         /\ sentiment.overall = "neutral" <=> pos = neg
         /\ sentiment.confidence = (IF 60 + 10 * gap > 95 THEN 95 ELSE 60 + 10 * gap)
         /\ 60 <= sentiment.confidence /\ sentiment.confidence <= 95
         /\ sentiment.energyLevel = "high"
              <=> (Includes(text, "excited") \/ Includes(text, "enthusiastic"))
         /\ sentiment.energyLevel \in {"high", "medium"}

C24_Witness ==
  \E r \in Requests :
    /\ Analysed(r)
    /\ summarizer[r].derived.sentimentAnalysis.overall = "positive"
    /\ summarizer[r].derived.sentimentAnalysis.positiveIndicators = 7
    /\ summarizer[r].derived.sentimentAnalysis.confidence = 95

----------------------------------------------------------------------------
\* extractDecisions.

\* The positions of the transcript's lines that hold a decision word in any
\* letter case and are longer than 40 characters.
DecisionLinesAt(lines) ==
  { i \in DOMAIN lines :
      /\ Len(lines[i]) > 40
      /\ \E w \in {"decided", "agreed", "approved", "concluded", "determined",
                   "resolved"} : Includes(ToLowerCase(lines[i]), w) }

\* C25: the decisions are, in transcript order and cut to 3, exactly the
\* lines (trimmed) that contain one of the decision words in any letter case
\* and are longer than 40 characters; the decisions of the scenario
\* transcript include its line, which holds "decided".
C25_DecisionLines ==
  \A r \in Requests :
    Analysed(r) =>
      LET transcript == summarizer[r].input.transcript
          lines == Split(transcript, "\n")
          at == DecisionLinesAt(lines)
          decisions == summarizer[r].derived.decisions
          \* the position of the n-th decision line
          Nth(n) == CHOOSE i \in at : Cardinality({ j \in at : j < i }) = n - 1
      IN /\ Len(decisions) = Min(Cardinality(at), 3)
         /\ \A n \in DOMAIN decisions : decisions[n] = Trim(lines[Nth(n)])
         /\ transcript = ScenarioTranscript =>
              \E n \in DOMAIN decisions :
                 /\ Includes(decisions[n], "decided")
                 /\ decisions[n] = ScenarioTranscript

C25_Witness ==
  \E r \in Requests :
    /\ Analysed(r)
    /\ Cardinality(DecisionLinesAt(Split(summarizer[r].input.transcript, "\n"))) = 4
    /\ summarizer[r].derived.decisions =
         << "We DECIDED to move the launch to the second quarter.",
            "The board approved the revised budget for the next year.",
            "It was concluded that the vendor contract will end in May." >>

----------------------------------------------------------------------------
\* generateMeetingSummary.

\* The lines of the transcript that are not blank and are longer than 50
\* characters, trimmed, in transcript order.
LongLines(transcript) ==
  LET lines == Split(transcript, "\n")
      long == SelectSeq(lines, LAMBDA line : Len(line) > 50 /\ Trim(line) # "")
  IN [i \in DOMAIN long |-> Trim(long[i])]

\* C26: the summary of every transcript, the empty one and those without a
\* line longer than 50 characters included, is a non-empty string; it embeds
\* the first 3 (or fewer) lines longer than 50 characters, in order and
\* nothing after them, and gives the length of the meeting as
\* ceil(wordCount / 150) minutes.
C26_SummaryShape ==
  \A r \in Requests :
    Analysed(r) =>
      LET transcript == summarizer[r].input.transcript
          summary == summarizer[r].derived.summary
          long == LongLines(transcript)
          embedded == SubSeq(long, 1, Min(Len(long), 3))
          wordCount == WordCount(transcript)
          minutes == CHOOSE m \in 0..wordCount :
                        150 * (m - 1) < wordCount /\ wordCount <= 150 * m
      IN /\ summary # ""
         /\ Includes(summary, "This " \o ToString(minutes) \o "-minute meeting")
         /\ Includes(summary,
                     "covered several key areas. " \o Join(embedded, " ") \o "\n\n")
         /\ \A i \in DOMAIN long : i > 3 => ~Includes(summary, long[i])

C26_Witness ==
  \E r \in Requests :
    /\ Analysed(r)
    /\ Len(LongLines(summarizer[r].input.transcript)) = 4
    /\ Includes(summarizer[r].derived.summary,
                "This 1-minute meeting covered several key areas. "
                  \o "We DECIDED to move the launch to the second quarter. "
                  \o "The board approved the revised budget for the next year. "
                  \o "It was concluded that the vendor contract will end in May.\n")

----------------------------------------------------------------------------
\* Write sequences of the MeetingTranscriptionProcessor step.

\* C27: completed and failed are terminal for the processor: after its first
\* write of status completed or failed for a record it makes no further write
\* to it (so a completed write is never followed by a failed one, also when
\* publishing transcription-completed fails), and once it has written failed
\* the event is not handed to it again.
C27_TerminalForTranscription ==
  \A r \in Requests :
    LET w == WritesBy(r, "processor")
    IN /\ \A i, j \in DOMAIN w :
            (i < j /\ w[i].key = w[j].key) => ~IsTerminal(w[i].data.status)
       /\ "failed" \in StatusesWrittenBy(r, "processor") =>
            /\ processor[r].pc \in {"emitFailed", "doneFailed", "rejected"}
            /\ ProcessorDelivery(r) = {}


\* C28: the writes of a processor run that reaches its completed write are,
\* in order: transcribing / 10 / "initializing"; then one or more checkpoint
\* writes with status transcribing and strictly increasing progress, each
\* greater than 10 and less than 100; then completed / 100.
C28_SuccessfulWriteSequence ==
  \A r \in Requests :
    LET w == WritesBy(r, "processor")
    IN \A n \in DOMAIN w :
         w[n].data.status = "completed" =>
           /\ w[n].data.progress = 100
           /\ n >= 3
           /\ w[1].data.status = "transcribing"
           /\ w[1].data.progress = 10
           /\ w[1].data.localWhisperStatus = "initializing"
           /\ \A i \in 2..(n - 1) :
                 /\ w[i].data.status = "transcribing"
                 /\ w[i].data.progress \in 11..99
                 /\ w[i].data.progress > w[i - 1].data.progress
           /\ \A i \in 1..n : w[i].key = w[1].key

C28_Witness ==
  \E r \in Requests :
    /\ processor[r].pc = "done"
    /\ Len(WritesBy(r, "processor")) = 7
    /\ WritesBy(r, "processor")[6].data.progress = 90
    /\ WritesBy(r, "processor")[7].data.status = "completed"


\* C29: whenever a transcription-completed event is observable, the processor
\* has already written completed / 100 with duration, transcript,
\* participants and processingTime to the record of the event's id; the event
\* carries the filename, transcript, participants, duration and model of that
\* write, and the record holds the transcript.
C29_CompletedWrittenBeforePublished ==
  \A r \in Requests :
    \A n \in DOMAIN emitted[r] :
      emitted[r][n].topic = "transcription-completed" =>
        LET event == emitted[r][n].data
            key == << TraceIdOf(r), event.transcriptionId >>
            w == WritesBy(r, "processor")
        IN /\ \E i \in DOMAIN w :
                /\ w[i].key = key
                /\ w[i].data.status = "completed"
                /\ w[i].data.progress = 100
                /\ {"duration", "transcript", "participants", "processingTime"}
                     \subseteq DOMAIN w[i].data
                /\ event.filename = w[i].data.filename
                /\ event.transcript = w[i].data.transcript
                /\ event.participants = w[i].data.participants
                /\ event.duration = w[i].data.duration
                /\ event.whisperModel = w[i].data.whisperModel
           /\ key \in DOMAIN store
           /\ HasTranscript(store[key])
           /\ store[key].transcript = event.transcript

C29_Witness ==
  \E r \in Requests :
    /\ EventsOn(r, "transcription-completed") # << >>
    /\ EventsOn(r, "transcription-completed")[1].data.duration = MinDuration + DurationSpan - 1
    /\ HasRecord(r)
    /\ RecordOf(r).status = "completed"
    /\ RecordOf(r).duration = MinDuration + DurationSpan - 1

----------------------------------------------------------------------------
\* Write and publish sequence of the MeetingSummarizer step.

DerivedFields ==
  {"summary", "actionItems", "keyTopics", "sentimentAnalysis", "decisions", "insights"}

\* C30: the summarizer publishes summary-completed and action-items-extracted
\* only after it has written processing / 100 and then completed / 100 with
\* the derived fields; action-items-extracted comes after summary-completed,
\* neither is published twice, a run that has returned has published both,
\* and each carries the transcriptionId of the transcription-completed event
\* that started the run and the action items of the final write.
C30_AnalysisWritesThenPublishes ==
  \A r \in Requests :
    LET w == WritesBy(r, "summarizer")
        summaries == EventsOn(r, "summary-completed")
        extracted == EventsOn(r, "action-items-extracted")
        triggers == EventsOn(r, "transcription-completed")
    IN /\ Len(summaries) <= 1 /\ Len(extracted) <= 1
       /\ Len(extracted) <= Len(summaries)
       /\ summarizer[r].pc = "done" =>
            (Len(w) = 2 /\ Len(summaries) = 1 /\ Len(extracted) = 1)
       /\ \A n, m \in DOMAIN emitted[r] :
            (emitted[r][n].topic = "summary-completed"
               /\ emitted[r][m].topic = "action-items-extracted") => n < m
       /\ \A n \in DOMAIN emitted[r] :
            emitted[r][n].topic \in {"summary-completed", "action-items-extracted"} =>
              /\ Len(w) >= 2
              /\ w[1].data.status = "processing" /\ w[1].data.progress = 100
              /\ w[2].data.status = "completed" /\ w[2].data.progress = 100
              /\ DerivedFields \subseteq DOMAIN w[2].data
              /\ emitted[r][n].data.actionItems = w[2].data.actionItems
              /\ Len(triggers) = 1
              /\ emitted[r][n].data.transcriptionId = triggers[1].data.transcriptionId

C30_Witness ==
  \E r \in Requests :
    /\ summarizer[r].pc = "done"
    /\ Len(WritesBy(r, "summarizer")) = 2
    /\ Len(EventsOn(r, "summary-completed")) = 1
    /\ Len(EventsOn(r, "action-items-extracted")) = 1
    /\ EventsOn(r, "action-items-extracted")[1].data.actionItems = DefaultActionItems

----------------------------------------------------------------------------
\* Events published by the MeetingTranscriptionProcessor step.

\* The outcome events the processor has published for the request.
OutcomeEvents(r) ==
  SelectSeq(emitted[r], LAMBDA e :
              e.topic \in {"transcription-completed", "transcription-failed"})

\* An emit of the processor's run has rejected: the one of the try block, or,
\* the failed record being written, the one of the catch block.
ProcessorBusFailed(r) ==
  \/ ProcessorFaulted(r) /\ processor[r].error = BusFaultMessage
  \/ /\ processor[r].pc = "rejected"
     /\ "failed" \in StatusesWrittenBy(r, "processor")

\* C31: for each meeting-transcription event it handles the processor
\* publishes at most one event, never both transcription-completed and
\* transcription-failed; a run that has ended without an emit rejecting has
\* published exactly one of the two.
C31_ExactlyOneOutcomeEvent ==
  \A r \in Requests :
    /\ Len(OutcomeEvents(r)) <= 1
    /\ ~({"transcription-completed", "transcription-failed"} \subseteq TopicsOf(r))
    /\ (ProcessorEnded(r) /\ ~ProcessorBusFailed(r)) => Len(OutcomeEvents(r)) = 1

----------------------------------------------------------------------------
\* The API step's writes, events and responses.

\* C32: whenever a request has been answered with status 400, for a missing
\* filename or because the store write or the event publish rejected, no
\* record of the request exists in the store and no meeting-transcription
\* event has been published for it.
C32_ErrorResponseLeavesNothing ==
  \A r \in Requests :
    response[r].status = 400 =>
      /\ WritesBy(r, "api") = << >>
      /\ ~HasRecord(r)
      /\ EventsOn(r, "meeting-transcription") = << >>


\* C33: the API step writes the uploading / 0 record before it publishes
\* meeting-transcription: the first write to every record is the API step's
\* uploading / 0 write, every processor write to it comes later, and no write
\* sets the status of a record back to uploading.
C33_UploadingWrittenFirst ==
  /\ [] \A r \in Requests :
       /\ EventsOn(r, "meeting-transcription") # << >> =>
            /\ WritesBy(r, "api") # << >>
            /\ WritesBy(r, "api")[1].key =
                 << TraceIdOf(r), EventsOn(r, "meeting-transcription")[1].data.transcriptionId >>
       /\ \A n \in DOMAIN writes[r] :
            writes[r][n].op = "set" =>
              /\ (n = 1) <=> (writes[r][n].stage = "api")
              /\ (n = 1) <=> (writes[r][n].data.status = "uploading")
              /\ n = 1 => writes[r][n].data.progress = 0
              /\ writes[r][n].key = writes[r][1].key
  /\ [][ \A k \in DOMAIN store :
           store[k].status # "uploading" => store'[k].status # "uploading" ]_vars


C33_Witness ==
  \E r \in Requests :
    /\ Len(writes[r]) >= 2
    /\ writes[r][1].stage = "api" /\ writes[r][1].data.status = "uploading"
    /\ writes[r][2].stage = "processor"
    /\ HasRecord(r)
    /\ RecordOf(r).status = "transcribing"


\* C34: for every request whose meeting-transcription event has been
\* published, also one that gives no language and no model, the model stored
\* by the uploading write equals the model of the event, which is
\* whisper-large-v3 when the request gives none, and the event carries a
\* language, "en" when the request gives none.
C34_RecordModelIsEventModel ==
  \A r \in Requests :
    EventsOn(r, "meeting-transcription") # << >> =>
      LET event == EventsOn(r, "meeting-transcription")[1].data
          initial == WritesBy(r, "api")[1].data
          body == api[r].body
      IN /\ "whisperModel" \in DOMAIN initial
         /\ initial.whisperModel = event.model
         /\ body.model = NoValue => event.model = "whisper-large-v3"
         /\ event.language # NoValue /\ event.language # ""
         /\ body.language = NoValue => event.language = "en"

----------------------------------------------------------------------------
\* Events against the input schemas of the steps subscribed to them.

\* z.string(): the property is present and is a string, not undefined.
IsStringField(data, f) ==
  /\ f \in DOMAIN data
  /\ data[f] \in STRING
  /\ data[f] # NoValue

\* z.string() for the id, `trans_${...}_${...}`, which is kept in its parts.
IsIdField(data, f) ==
  /\ f \in DOMAIN data
  /\ Len(data[f]) = 3
  /\ data[f][1] = "trans"

\* z.array(z.string()).optional()
IsOptionalStringArray(data, f) ==
  f \in DOMAIN data => \A i \in DOMAIN data[f] : data[f][i] \in STRING

\* z.number().optional()
IsOptionalNumber(data, f) == f \in DOMAIN data => data[f] \in Int

\* The input schema of the MeetingTranscriptionProcessor step.
ProcessorInputSchema(data) ==
  /\ IsStringField(data, "filename")
  /\ IsStringField(data, "language")
  /\ IsStringField(data, "model")
  /\ IsIdField(data, "transcriptionId")
  /\ "apiRequest" \in DOMAIN data => data.apiRequest \in BOOLEAN
  /\ "localWhisperPath" \in DOMAIN data => IsStringField(data, "localWhisperPath")

\* The input schema of the MeetingSummarizer step.
SummarizerInputSchema(data) ==
  /\ IsStringField(data, "filename")
  /\ IsIdField(data, "transcriptionId")
  /\ IsStringField(data, "transcript")
  /\ IsOptionalStringArray(data, "participants")
  /\ IsOptionalNumber(data, "duration")
  /\ IsStringField(data, "whisperModel")
  /\ IsStringField(data, "timestamp")

\* C35: every published event satisfies the input schema of the step
\* subscribed to its topic: a meeting-transcription event has string filename,
\* language, model and transcriptionId, a transcription-completed event has
\* string filename, transcriptionId, transcript, whisperModel and timestamp;
\* so does every event waiting to be handed to a step.
C35_EventsSatisfyInputSchemas ==
  /\ \A r \in Requests :
       \A n \in DOMAIN emitted[r] :
          /\ emitted[r][n].topic = "meeting-transcription"
               => ProcessorInputSchema(emitted[r][n].data)
          /\ emitted[r][n].topic = "transcription-completed"
               => SummarizerInputSchema(emitted[r][n].data)
  /\ \A d \in inbox :
       /\ d.stage = "processor" => ProcessorInputSchema(d.data)
       /\ d.stage = "summarizer" => SummarizerInputSchema(d.data)

C35_Witness ==
  \E r \in Requests :
    /\ api[r].pc = "done"
    /\ api[r].body.language = NoValue
    /\ api[r].body.model = NoValue
    /\ EventsOn(r, "meeting-transcription") # << >>
    /\ EventsOn(r, "meeting-transcription")[1].data.language = "en"
    /\ EventsOn(r, "transcription-completed") # << >>

----------------------------------------------------------------------------
\* Status and progress of the records.

\* C36: in every reachable state every record of the store and every item
\* added to the stream has a progress that fits its status: 0 with uploading;
\* 10, 20, 40, 60, 80 or 90 with transcribing; 100 with processing; 100 and a
\* non-empty transcript with completed.
C36_StatusProgressCoupled ==
  \A rec \in ObservedRecords :
    /\ rec.status = "uploading" => rec.progress = 0
    /\ rec.status = "transcribing" => rec.progress \in {10, 20, 40, 60, 80, 90}
    /\ rec.status = "processing" => rec.progress = 100
    /\ rec.status = "completed" => (rec.progress = 100 /\ HasTranscript(rec))

C36_Witness ==
  /\ \E k \in DOMAIN store : store[k].status = "completed" /\ store[k].progress = 100
  /\ \E k \in DOMAIN store : store[k].status = "uploading"
  /\ \E item \in DOMAIN streamItems : item.status = "processing"

----------------------------------------------------------------------------
\* analyzeSentiment: what the indicators count.

\* C37: positiveIndicators (negativeIndicators) is the number of occurrences
\* in the lowercased transcript of the words of the positive (negative) list,
\* that is the number of places at which a word of the list starts: a word
\* that occurs k times adds k.
C37_IndicatorsCountOccurrences ==
  \A r \in Requests :
    Analysed(r) =>
      LET text == ToLowerCase(summarizer[r].input.transcript)
          sentiment == summarizer[r].derived.sentimentAnalysis
          Occurrences(words) ==
            Cardinality({ at \in (DOMAIN words) \X (1..Len(text)) :
                            /\ at[2] + Len(words[at[1]]) - 1 <= Len(text)
                            /\ SubSeq(text, at[2], at[2] + Len(words[at[1]]) - 1)
                                 = words[at[1]] })
      IN /\ sentiment.positiveIndicators = Occurrences(positiveWords)
         /\ sentiment.negativeIndicators = Occurrences(negativeWords)

----------------------------------------------------------------------------
\* generateInsights: speaking rate and engagement.

\* C38: when the duration is known (given and not 0) the speaking rate is
\* wordCount divided by the duration in minutes, rounded to the nearest
\* integer, and otherwise it is 150; engagementLevel is high exactly when the
\* rate is above 160, medium exactly when it is above 120 and at most 160 (so
\* for the default), and low otherwise.
C38_SpeakingRateAndEngagement ==
  \A r \in Requests :
    Analysed(r) =>
      LET input == summarizer[r].input
          insights == summarizer[r].derived.insights
          rate == insights.keyMetrics.estimatedSpeakingRate
          words == insights.keyMetrics.wordCount
          known == "duration" \in DOMAIN input /\ input.duration # 0
      IN /\ rate \in Int
         \* rate - 1/2 <= 60 * words / duration <= rate + 1/2
         /\ known =>
              /\ (2 * rate - 1) * input.duration <= 120 * words
              /\ 120 * words <= (2 * rate + 1) * input.duration
         /\ ~known => rate = 150
         /\ insights.engagementLevel = "high" <=> rate > 160
         /\ insights.engagementLevel = "medium" <=> (120 < rate /\ rate <= 160)
         /\ insights.engagementLevel = "low" <=> rate <= 120
         /\ ~known => insights.engagementLevel = "medium"

C38_Witness ==
  \E r \in Requests :
    /\ Analysed(r)
    /\ "duration" \in DOMAIN summarizer[r].input
    /\ summarizer[r].input.duration = 3
    /\ summarizer[r].derived.insights.keyMetrics.wordCount = 8
    /\ summarizer[r].derived.insights.keyMetrics.estimatedSpeakingRate = 160
    /\ summarizer[r].derived.insights.engagementLevel = "medium"

====
